---------------------------- MODULE Spec2Model ----------------------------
(***************************************************************************)
(* A model of src/wrapper.c: the win32 launcher that tokenizes its own     *)
(* command line, injects "-E <script path>" and runs Py_Main.              *)
(*                                                                         *)
(* Characters are wchar_t code units, 0 is the terminator. Memory of the   *)
(* argv allocation is a partial function from byte address to the cell     *)
(* stored there (a wchar_t or a pointer); pointers are byte addresses and  *)
(* NULL is address 0.                                                      *)
(***************************************************************************)
EXTENDS Integers, Sequences, FiniteSets, TLC

(* ------------------------------ bounds -------------------------------- *)

\* longest command line enumerated exhaustively over Alphabet
MaxCmdLen == 5
\* longest run of backslashes in the structured backslash family
MaxSlash == 5
\* longest tail after the backslash run in the structured family
MaxTail == 2
\* longest argument text of the structured family of quotes
MaxQuoteLen == 6

(* ---------------------------- characters ------------------------------ *)

NUL == 0
QUOTE == 34
BSLASH == 92
SPACE == 32
TAB == 9

\* the characters command lines are drawn from: 'a' and the four the
\* tokenizer treats specially
Alphabet == {97, SPACE, TAB, QUOTE, BSLASH}

\* sizeof(wchar_t) and sizeof(wchar_t*) of the win64 build
WcharSize == 2
PtrSize == 8

NULL == 0
\* address of the string literal L"-E"
LitDashE == 8
\* address HeapAlloc returns for the argv allocation
ArgvBase == 64

RECURSIVE SeqsUpTo(_, _)
SeqsUpTo(S, n) ==
  IF n = 0 THEN {<<>>}
  ELSE LET shorter == SeqsUpTo(S, n - 1)
       IN  shorter \cup {Append(s, x) : s \in shorter, x \in S}

RECURSIVE Repeat(_, _)
Repeat(x, n) == IF n = 0 THEN <<>> ELSE <<x>> \o Repeat(x, n - 1)


(* ------------------------------- state -------------------------------- *)

VARIABLES
  pc,                 \* position in wmainCRTStartup, emcc_get_argc_argv or a callee
  \* ---- the operating system
  environment,        \* the process environment: name -> value, for the names set
  module_file_name,   \* what GetModuleFileNameW(NULL) names: the launcher's path
  last_error,         \* the thread's last-error code
  heap,               \* block -> "none", "live", "freed" or "double_free"
  failures,           \* history: the allocations that failed, by their line
  \* ---- parse_command_line: parameters and locals
  cmd,                \* cmdstart: the command line, without its terminator
  p,                  \* index into cmd (Len(cmd)+1 is the terminator)
  argv,               \* the argv parameter: next pointer slot, or NULL
  args,               \* the args parameter: next character cell, or NULL
  argument_count,     \* *argument_count
  character_count,    \* *character_count
  c,                  \* last character read while scanning the program name
  in_quotes,
  pass,               \* which call of parse_command_line runs: "none", "sizing", "copy"
  scanned,            \* history: the iterations of the scan loop (lines 211-262)
                      \* over the current argument, oldest first
  \* ---- windows_api_get_buffer_call: parameter and locals
  api,                \* the callback and its context, by what it queries
  buffer,             \* [cap, data]: capacity in wchar_t and cells written; cap 0 is NULL
  size,
  buffer_size,
  err,
  fetches,            \* history: the calls of api in the current call, oldest first,
                      \* as [cap, buf, ret, err]: the capacity passed, the capacity
                      \* of the buffer passed (0: NULL), the DWORD returned and the
                      \* last-error code afterwards
  \* ---- emcc_get_argc_argv
  launcher_path,
  launcher_path_length,
  long_script_path,
  long_script_path_size,
  argument_array_size,
  character_array_size,
  total_size,
  argv_buffer,        \* address of the allocation, or NULL
  mem,                \* memory of the argv allocation: byte address -> cell
  argc,
  result,             \* the argv emcc_get_argc_argv returned, or NULL
  \* ---- wmainCRTStartup
  stdin_closes,       \* how often CloseHandle(GetStdHandle(STD_INPUT_HANDLE)) ran
  loads,              \* the module names given to LoadLibraryW, in order
  python_hmodule,     \* the module handle LoadLibraryW returned, or NULL
  Py_Main,            \* the entry point GetProcAddress returned, or NULL
  free_library_calls, \* how often FreeLibrary(python_hmodule) ran
  py_main_calls,      \* history: each call of Py_Main, as [argc, argv, returned]
  ret,
  exit_code           \* the code given to ExitProcess, once pc = "exited"

osVars == <<environment, module_file_name, last_error, heap, failures>>
tokVars == <<cmd, p, argv, args, argument_count, character_count, c, in_quotes, pass,
             scanned>>
callVars == <<api, buffer, size, buffer_size, err, fetches>>
emccVars == <<launcher_path, launcher_path_length, long_script_path,
              long_script_path_size, argument_array_size, character_array_size,
              total_size, argv_buffer, argc, result>>
mainVars == <<stdin_closes, loads, python_hmodule, Py_Main, free_library_calls,
              py_main_calls, ret, exit_code>>
vars == <<pc, osVars, tokVars, callVars, emccVars, mem, mainVars>>

\* what parse_command_line leaves alone apart from its own parameters and locals
outsideParse == <<osVars, callVars, emccVars, mainVars>>

(* ----------------------------- memory --------------------------------- *)

NoMem == [a \in {} |-> NUL]

\* *(a) = v
Store(m, a, v) == [x \in DOMAIN m \cup {a} |-> IF x = a THEN v ELSE m[x]]

\* the wchar_t cells s[1..Len(s)] written from address a on
StoreChars(m, a, s) ==
  LET cells == {a + WcharSize * (i - 1) : i \in 1..Len(s)}
  IN  [x \in DOMAIN m \cup cells |->
         IF x \in cells THEN s[((x - a) \div WcharSize) + 1] ELSE m[x]]

\* the cells read one after the other from start on, step apart, up to the
\* first NUL, which is not part of the string (a cell never written reads as
\* -1 and ends the string)
CellsToNul(m, start, step) ==
  LET Cell(k) == start + step * k
      Ends(k) == Cell(k) \notin DOMAIN m \/ m[Cell(k)] = NUL
      n == CHOOSE k \in 0..Cardinality(DOMAIN m) :
             Ends(k) /\ \A j \in 0..(k - 1) : ~Ends(j)
  IN  [k \in 1..n |-> m[Cell(k - 1)]]
        \o (IF Cell(n) \in DOMAIN m THEN <<>> ELSE <<-1>>)

\* the NUL-terminated string at address a (L"-E" is <<45, 69>>)
StrAt(m, a) == IF a = LitDashE THEN <<45, 69>> ELSE CellsToNul(m, a, WcharSize)

\* the same for a buffer of wchar_t cells indexed from 0
StrOf(data, i) == CellsToNul(data, i, 1)

\* cells s[1..Len(s)] written into a buffer from index i on
StoreCells(data, i, s) ==
  LET cells == {i + k - 1 : k \in 1..Len(s)}
  IN  [x \in DOMAIN data \cup cells |->
         IF x \in cells THEN s[x - i + 1] ELSE data[x]]

\* the cells data[i..i+n-1], as memcpy reads them (-1: never written)
ReadCells(data, i, n) ==
  [k \in 1..n |-> IF i + k - 1 \in DOMAIN data THEN data[i + k - 1] ELSE -1]

NullBuffer == [cap |-> 0, data |-> NoMem]

\* free(block): HeapFree of a live block; of NULL it does nothing
Free(h, block) ==
  [h EXCEPT ![block] = IF @ = "live" THEN "freed"
                       ELSE IF @ = "none" THEN "none" ELSE "double_free"]

(* ------------------------ parse_command_line -------------------------- *)

\* *p for the pointer at index i of the NUL-terminated command line
At(i) == IF i \in 1..Len(cmd) THEN cmd[i] ELSE NUL

IsBlank(ch) == ch = SPACE \/ ch = TAB

\* while (*p == ' ' || *p == '\t') ++p;
RECURSIVE SkipBlanks(_)
SkipBlanks(i) == IF IsBlank(At(i)) THEN SkipBlanks(i + 1) ELSE i

\* while (*p == '\\') { ++p; ++numslash; }
RECURSIVE CountSlashes(_)
CountSlashes(i) == IF At(i) = BSLASH THEN 1 + CountSlashes(i + 1) ELSE 0

\* if (args) *args++ = ...; for each character of s
Emit(m, a, s) == IF a = NULL THEN m ELSE StoreChars(m, a, s)
Advance(a, n) == IF a = NULL THEN NULL ELSE a + WcharSize * n

\* ParseStart without the program name counted: *argument_count = 0
ParseStartCountsFromZero ==
  /\ pc = "parse_start"
  /\ character_count' = 0
  /\ argument_count' = 0
  /\ p' = 1
  /\ mem' = IF argv # NULL THEN Store(mem, argv, args) ELSE mem
  /\ argv' = IF argv # NULL THEN argv + PtrSize ELSE NULL
  /\ in_quotes' = FALSE
  /\ scanned' = <<>>
  /\ pc' = "program_name"
  /\ UNCHANGED <<cmd, args, c, pass, outsideParse>>

\* lines 151-170: the counts are reset, the program name's slot is stored
ParseStart ==
  /\ pc = "parse_start"
  /\ character_count' = 0
  /\ argument_count' = 1
  /\ p' = 1
  /\ mem' = IF argv # NULL THEN Store(mem, argv, args) ELSE mem
  /\ argv' = IF argv # NULL THEN argv + PtrSize ELSE NULL
  /\ in_quotes' = FALSE
  /\ scanned' = <<>>
  /\ pc' = "program_name"
  /\ UNCHANGED <<cmd, args, c, pass, outsideParse>>

\* lines 171-183: one iteration of the do-while loop over the program name
ScanProgramName ==
  /\ pc = "program_name"
  /\ IF At(p) = QUOTE
       THEN /\ in_quotes' = ~in_quotes
            /\ UNCHANGED <<character_count, args, mem>>
       ELSE /\ character_count' = character_count + 1
            /\ mem' = Emit(mem, args, <<At(p)>>)
            /\ args' = Advance(args, 1)
            /\ UNCHANGED in_quotes
  /\ c' = At(p)
  /\ p' = p + 1
  /\ pc' = IF c' # NUL /\ (in_quotes' \/ ~IsBlank(c'))
             THEN "program_name" ELSE "program_name_end"
  /\ UNCHANGED <<cmd, argv, argument_count, pass, scanned, outsideParse>>

\* lines 185-192: step back onto the terminator, or terminate the name
EndProgramName ==
  /\ pc = "program_name_end"
  /\ IF c = NUL
       THEN /\ p' = p - 1
            /\ UNCHANGED mem
       ELSE /\ mem' = IF args # NULL THEN Store(mem, args - WcharSize, NUL) ELSE mem
            /\ UNCHANGED p
  /\ in_quotes' = FALSE
  /\ pc' = "next_argument"
  /\ UNCHANGED <<cmd, argv, args, argument_count, character_count, c, pass, scanned,
                 outsideParse>>

\* lines 195-208: skip blanks, then stop or open the next argument
NextArgument ==
  /\ pc = "next_argument"
  /\ p' = SkipBlanks(p)
  /\ scanned' = <<>>
  /\ IF At(p') = NUL
       THEN /\ pc' = "parse_end"
            /\ UNCHANGED <<mem, argv, argument_count>>
       ELSE /\ mem' = IF argv # NULL THEN Store(mem, argv, args) ELSE mem
            /\ argv' = IF argv # NULL THEN argv + PtrSize ELSE NULL
            /\ argument_count' = argument_count + 1
            /\ pc' = "scan_argument"
  /\ UNCHANGED <<cmd, args, character_count, c, in_quotes, pass, outsideParse>>

\* QuoteRule with the backslashes halved whether or not a quote follows
QuoteRuleHalvesAlways(q, numslash, inq) ==
  IF At(q) # QUOTE
    THEN [q |-> q, copy |-> TRUE, inq |-> inq, slashes |-> numslash \div 2]
  ELSE IF numslash % 2 # 0
    THEN [q |-> q, copy |-> TRUE, inq |-> inq, slashes |-> numslash \div 2]
  ELSE IF inq /\ At(q + 1) = QUOTE
    THEN [q |-> q + 1, copy |-> TRUE, inq |-> inq, slashes |-> numslash \div 2]
  ELSE [q |-> q, copy |-> FALSE, inq |-> ~inq, slashes |-> numslash \div 2]

\* QuoteRule with a doubled quote taken as such outside quoted mode too
QuoteRuleDoublesAnywhere(q, numslash, inq) ==
  IF At(q) # QUOTE
    THEN [q |-> q, copy |-> TRUE, inq |-> inq, slashes |-> numslash]
  ELSE IF numslash % 2 # 0
    THEN [q |-> q, copy |-> TRUE, inq |-> inq, slashes |-> numslash \div 2]
  ELSE IF At(q + 1) = QUOTE
    THEN [q |-> q + 1, copy |-> TRUE, inq |-> inq, slashes |-> numslash \div 2]
  ELSE [q |-> q, copy |-> FALSE, inq |-> ~inq, slashes |-> numslash \div 2]

\* lines 226-240: what an unescaped or escaped quote after numslash
\* backslashes at index q does: the index then current, whether the character
\* there is copied, the quote mode and the backslashes left to copy
QuoteRule(q, numslash, inq) ==
  IF At(q) # QUOTE
    THEN [q |-> q, copy |-> TRUE, inq |-> inq, slashes |-> numslash]
  ELSE IF numslash % 2 # 0
    THEN [q |-> q, copy |-> TRUE, inq |-> inq, slashes |-> numslash \div 2]
  ELSE IF inq /\ At(q + 1) = QUOTE
    THEN [q |-> q + 1, copy |-> TRUE, inq |-> inq, slashes |-> numslash \div 2]
  ELSE [q |-> q, copy |-> FALSE, inq |-> ~inq, slashes |-> numslash \div 2]

\* AtEndOfArgument with every blank ending the argument, quoted or not
AtEndOfArgumentAnyBlank(q, inq) == At(q) = NUL \/ IsBlank(At(q))

\* line 250: if at end of arg, break loop
AtEndOfArgument(q, inq) == At(q) = NUL \/ (~inq /\ IsBlank(At(q)))

\* lines 211-262: one iteration of the loop that scans one argument
ScanArgument ==
  /\ pc = "scan_argument"
  /\ LET numslash == CountSlashes(p)
         r == QuoteRule(p + numslash, numslash, in_quotes)
         slashes == Repeat(BSLASH, r.slashes)
         atEnd == AtEndOfArgument(r.q, r.inq)
         out == IF ~atEnd /\ r.copy THEN Append(slashes, At(r.q)) ELSE slashes
     IN  /\ in_quotes' = r.inq
         /\ mem' = Emit(mem, args, out)
         /\ args' = Advance(args, Len(out))
         /\ character_count' = character_count + Len(out)
         /\ p' = IF atEnd THEN r.q ELSE r.q + 1
         /\ pc' = IF atEnd THEN "argument_end" ELSE "scan_argument"
         /\ scanned' = Append(scanned, [at |-> p, inq |-> in_quotes, out |-> out,
                                        inq_after |-> r.inq, next |-> p'])
  /\ UNCHANGED <<cmd, argv, argument_count, c, pass, outsideParse>>

\* EndArgument with the terminator counted only when it is stored
EndArgumentCountsWhenCopying ==
  /\ pc = "argument_end"
  /\ mem' = Emit(mem, args, <<NUL>>)
  /\ args' = Advance(args, 1)
  /\ character_count' = IF args # NULL THEN character_count + 1 ELSE character_count
  /\ pc' = "next_argument"
  /\ UNCHANGED <<cmd, p, argv, argument_count, c, in_quotes, pass, scanned, outsideParse>>

\* lines 264-268: null-terminate the argument
EndArgument ==
  /\ pc = "argument_end"
  /\ mem' = Emit(mem, args, <<NUL>>)
  /\ args' = Advance(args, 1)
  /\ character_count' = character_count + 1
  /\ pc' = "next_argument"
  /\ UNCHANGED <<cmd, p, argv, argument_count, c, in_quotes, pass, scanned, outsideParse>>

\* lines 271-276: the last slot is a null pointer; return to the caller
ParseEnd ==
  /\ pc = "parse_end"
  /\ mem' = IF argv # NULL THEN Store(mem, argv, NULL) ELSE mem
  /\ argv' = IF argv # NULL THEN argv + PtrSize ELSE NULL
  /\ argument_count' = argument_count + 1
  /\ pc' = IF pass = "sizing" THEN "allocate" ELSE "inject"
  /\ UNCHANGED <<cmd, p, args, character_count, c, in_quotes, pass, scanned,
                 outsideParse>>

parse_command_line ==
  \/ ParseStart
  \/ ScanProgramName
  \/ EndProgramName
  \/ NextArgument
  \/ ScanArgument
  \/ EndArgument
  \/ ParseEnd

(* ---------------------- the operating system --------------------------- *)

ERROR_SUCCESS == 0
ERROR_INSUFFICIENT_BUFFER == 122
\* what a failing query reports: ERROR_ACCESS_DENIED, ERROR_ENVVAR_NOT_FOUND
OtherErrors == {5, 203}

\* DWORD arithmetic wraps at 2^32, beyond the integers TLC computes with:
\* the model's DWORD is scaled to 10 bits, and its lengths (at most
\* LongPathLens and a directory) stay as far below 2^10 - 32 as a Windows
\* path (at most 32767 characters) stays below 2^32 - 32
DWordRange == 1024
DWord(n) == n % DWordRange

SYSCONFIGDATA_NAME == "_PYTHON_SYSCONFIGDATA_NAME"
WORKAROUND_NAME == "EM_WORKAROUND_PYTHON_BUG_34780"
PYTHON_DLL_NAME == "EMSDK_PYTHON_DLL"
MODULE_FILE_NAME == "GetModuleFileNameW"
FULL_PATH_NAME == "GetFullPathNameW"

\* L"python3.dll"
Python3Dll == <<112, 121, 116, 104, 111, 110, 51, 46, 100, 108, 108>>

\* longest module path of the launcher
MaxPathLen == 5

\* a module path of length n >= 3: distinct stem characters, then "exe"
\* after a dot when there is room for one
ModulePath(n) ==
  [i \in 1..n |-> IF i = n THEN 101 ELSE IF i = n - 1 THEN 120
                  ELSE IF i = n - 2 THEN 101 ELSE IF i = n - 3 THEN 46
                  ELSE 64 + i]

\* module paths that do not fit the first, and the second, capacity of the
\* grow loop
LongPathLens == {40, 100}

ModulePaths == {ModulePath(n) : n \in (3..MaxPathLen) \cup LongPathLens}

\* GetFullPathNameW: the path as it is when absolute, behind the current
\* directory (here "c") when relative
FullPathNames(path) == {path, <<99>> \o path}

\* api(context, buffer, capacity): the results the callback may produce, as
\* [ret, err, str]: the DWORD returned, the last-error code afterwards and
\* the cells stored into the buffer from index 0 on
NoResult(e) == [ret |-> 0, err |-> e, str |-> <<>>]

\* GetEnvironmentVariableW (lines 121-126): the value's length when it fits,
\* else the capacity needed, terminator included; 0 when the name is not set
GetEnvironmentVariableW_callback(name, capacity) ==
  IF name \notin DOMAIN environment THEN {NoResult(203)}
  ELSE LET value == environment[name]
       IN  IF capacity > Len(value)
             THEN {[ret |-> Len(value), err |-> last_error, str |-> Append(value, NUL)]}
             ELSE {[ret |-> Len(value) + 1, err |-> last_error, str |-> <<>>]}

\* GetModuleFileNameW (lines 109-114): the path when it fits; else the path
\* cut to the capacity, the capacity returned and ERROR_INSUFFICIENT_BUFFER
GetModuleFileNameW_callback(capacity) ==
  LET path == module_file_name
  IN  { IF capacity > Len(path)
          THEN [ret |-> Len(path), err |-> ERROR_SUCCESS, str |-> Append(path, NUL)]
          ELSE [ret |-> capacity, err |-> ERROR_INSUFFICIENT_BUFFER,
                str |-> IF capacity = 0 THEN <<>>
                        ELSE Append(SubSeq(path, 1, capacity - 1), NUL)] }
      \cup {NoResult(5)}

\* GetFullPathNameW (lines 134-139): the full path's length when it fits, else
\* the capacity needed, terminator included; 0 on failure
GetFullPathNameW_callback(path, capacity) ==
  { IF capacity > Len(full)
      THEN [ret |-> Len(full), err |-> last_error, str |-> Append(full, NUL)]
      ELSE [ret |-> Len(full) + 1, err |-> last_error, str |-> <<>>]
    : full \in FullPathNames(path) }
  \cup {NoResult(5)}

\* lines 56-58: the callback api stands for, called with a buffer of the
\* given capacity
Callback(capacity) ==
  IF api = MODULE_FILE_NAME THEN GetModuleFileNameW_callback(capacity)
  ELSE IF api = FULL_PATH_NAME
    THEN GetFullPathNameW_callback(StrOf(launcher_path.data, 0), capacity)
  ELSE GetEnvironmentVariableW_callback(api, capacity)

\* the heap block a query's buffer is
BlockOf(a) ==
  IF a = WORKAROUND_NAME THEN "workaround_env"
  ELSE IF a = PYTHON_DLL_NAME THEN "emsdk_python_dll_path"
  ELSE IF a = MODULE_FILE_NAME THEN "launcher_path"
  ELSE "long_script_path"

\* where each call of windows_api_get_buffer_call returns to
ReturnSite(a) ==
  IF a = WORKAROUND_NAME THEN "workaround"
  ELSE IF a = PYTHON_DLL_NAME THEN "load_library"
  ELSE IF a = MODULE_FILE_NAME THEN "substitute"
  ELSE "after_full_path"

(* -------------------- windows_api_get_buffer_call ---------------------- *)

\* one call of api, as fetches records it
Fetched(capacity, passed, r) ==
  [cap |-> capacity, buf |-> passed, ret |-> r.ret, err |-> r.err]

\* lines 63-66, 74: the zero-capacity probe and the branch on its result
Probe ==
  /\ pc = "probe"
  /\ \E r \in Callback(0) :
       /\ size' = r.ret
       /\ buffer_size' = r.ret
       /\ last_error' = r.err
       /\ fetches' = <<Fetched(0, 0, r)>>
       /\ pc' = IF r.ret > 0 THEN "fetch" ELSE "grow"
  /\ buffer' = NullBuffer
  /\ UNCHANGED <<environment, module_file_name, failures, heap, api, err, tokVars,
                 emccVars, mem, mainVars>>

\* lines 67-73: the length is known: allocate it, fetch once, compare
\* (a failed malloc hands the callback a null buffer: the call faults, or
\* the system rejects the pointer)
Fetch ==
  /\ pc = "fetch"
  /\ \/ \E r \in Callback(buffer_size) :
          /\ size' = r.ret
          /\ last_error' = r.err
          /\ fetches' = Append(fetches, Fetched(buffer_size, buffer_size, r))
          /\ IF DWord(r.ret + 1) # buffer_size
               THEN /\ buffer' = NullBuffer
                    /\ heap' = [heap EXCEPT ![BlockOf(api)] = "freed"]
               ELSE /\ buffer' = [cap |-> buffer_size,
                                  data |-> StoreCells(NoMem, 0, r.str)]
                    /\ heap' = [heap EXCEPT ![BlockOf(api)] = "live"]
          /\ pc' = "return"
          /\ UNCHANGED failures
     \/ /\ failures' = failures \cup {68}
        /\ buffer' = NullBuffer
        /\ size' = 0
        /\ \E e \in OtherErrors :
             /\ last_error' = e
             /\ fetches' = Append(fetches, Fetched(buffer_size, 0, NoResult(e)))
        /\ UNCHANGED heap
        /\ pc' \in {"return", "fault"}
  /\ UNCHANGED <<environment, module_file_name, api, buffer_size, err, tokVars,
                 emccVars, mem, mainVars>>

\* the capacity grown by 32 only
GrownSizeAddsOnly(b) == DWord(b + 32)

\* the capacity doubled less 32
GrownSizeLess32(b) == DWord(2 * b - 32)

\* line 80: buffer_size = (buffer_size << 1) + 32, in DWORD arithmetic
GrownSize(b) == DWord(2 * b + 32)

\* lines 79-86: one test of the loop condition and, when the last error is
\* ERROR_INSUFFICIENT_BUFFER, one pass of the body: grow, reallocate, fetch
Grow ==
  /\ pc = "grow"
  /\ err' = last_error
  /\ IF last_error = ERROR_INSUFFICIENT_BUFFER
       THEN /\ buffer_size' = GrownSize(buffer_size)
            /\ \/ \E r \in Callback(buffer_size') :
                    /\ buffer' = [cap |-> buffer_size',
                                  data |-> StoreCells(buffer.data, 0, r.str)]
                    /\ heap' = [heap EXCEPT ![BlockOf(api)] = "live"]
                    /\ size' = r.ret
                    /\ last_error' = r.err
                    /\ fetches' = Append(fetches, Fetched(buffer_size', buffer_size', r))
                    /\ pc' = "grow"
                    /\ UNCHANGED failures
               \/ /\ failures' = failures \cup {81}
                  /\ buffer' = NullBuffer
                  /\ pc' = "finish"
                  /\ UNCHANGED <<heap, size, last_error, fetches>>
       ELSE /\ pc' = "finish"
            /\ UNCHANGED <<buffer, buffer_size, heap, size, last_error, fetches,
                           failures>>
  /\ UNCHANGED <<environment, module_file_name, api, tokVars, emccVars, mem, mainVars>>

\* lines 87-98: terminate and shrink the buffer on success, else free it
Finish ==
  /\ pc = "finish"
  /\ IF buffer.cap # 0
       THEN IF err = ERROR_SUCCESS
              THEN IF DWord(size + 1) # buffer_size
                     THEN \/ /\ buffer' = [cap |-> DWord(size + 1),
                                           data |-> StoreCells(buffer.data, size, <<NUL>>)]
                             /\ UNCHANGED <<heap, failures>>
                          \/ /\ buffer' = NullBuffer
                             /\ failures' = failures \cup {91}
                             /\ UNCHANGED heap
                     ELSE /\ buffer' = [buffer EXCEPT
                                          !.data = StoreCells(@, size, <<NUL>>)]
                          /\ UNCHANGED <<heap, failures>>
              ELSE /\ buffer' = NullBuffer
                   /\ heap' = Free(heap, BlockOf(api))
                   /\ UNCHANGED failures
       ELSE UNCHANGED <<buffer, heap, failures>>
  /\ pc' = "return"
  /\ UNCHANGED <<environment, module_file_name, last_error, api, size, buffer_size,
                 err, fetches, tokVars, emccVars, mem, mainVars>>

\* lines 99-106: report the size and return the buffer
Return ==
  /\ pc = "return"
  /\ size' = IF buffer.cap = 0 THEN 0 ELSE size
  /\ buffer_size' = 0
  /\ err' = 0
  /\ pc' = ReturnSite(api)
  /\ UNCHANGED <<osVars, api, buffer, fetches, tokVars, emccVars, mem, mainVars>>

windows_api_get_buffer_call ==
  \/ Probe
  \/ Fetch
  \/ Grow
  \/ Finish
  \/ Return

(* ------------------------ emcc_get_argc_argv --------------------------- *)

\* longest command line of a whole run of the launcher
MaxRunCmdLen == 2

\* the command lines the tokenizer is run on by itself: every string over
\* Alphabet up to MaxCmdLen, and a program name, a blank, an optional opening
\* quote, up to MaxSlash backslashes and up to MaxTail further characters
SlashFamily ==
  {<<97, SPACE>> \o open \o Repeat(BSLASH, n) \o tail :
     open \in {<<>>, <<QUOTE>>}, n \in 0..MaxSlash, tail \in SeqsUpTo(Alphabet, MaxTail)}

\* and a program name, a blank and up to MaxQuoteLen quotes, letters and blanks
QuoteFamily ==
  {<<97, SPACE>> \o text : text \in SeqsUpTo({QUOTE, 97, SPACE}, MaxQuoteLen)}

TokenizerCommandLines ==
  SeqsUpTo(Alphabet, MaxCmdLen) \cup SlashFamily \cup QuoteFamily

RunCommandLines == SeqsUpTo(Alphabet, MaxRunCmdLen)

\* lines 279-280: get_module_file_name(NULL, &launcher_path_length)
GetModuleFileName ==
  /\ pc = "emcc_get_argc_argv"
  /\ api' = MODULE_FILE_NAME
  /\ pc' = "probe"
  /\ UNCHANGED <<osVars, buffer, size, buffer_size, err, fetches, tokVars, emccVars, mem, mainVars>>

\* ChangeExtension one cell late: launcher_path + launcher_path_length - 2
ChangeExtensionOneLate(data, length) == StoreCells(data, length - 2, <<112, 121, NUL>>)

\* memcpy(launcher_path + launcher_path_length - 3, L"py", 6): the three
\* wchar_t cells 'p', 'y', 0
ChangeExtension(data, length) == StoreCells(data, length - 3, <<112, 121, NUL>>)

\* lines 281-287: give up without a launcher path; else change the .exe
\* extension to .py and ask for the full path name
Substitute ==
  /\ pc = "substitute"
  /\ IF buffer.cap = 0
       THEN /\ result' = NULL
            /\ pc' = "emcc_return"
            /\ UNCHANGED <<launcher_path, launcher_path_length, api>>
       ELSE /\ launcher_path' = [buffer EXCEPT !.data = ChangeExtension(@, size)]
            /\ launcher_path_length' = size
            /\ api' = FULL_PATH_NAME
            /\ result' = result
            /\ pc' = "probe"
  /\ UNCHANGED <<osVars, buffer, size, buffer_size, err, fetches, tokVars, long_script_path,
                 long_script_path_size, argument_array_size, character_array_size,
                 total_size, argv_buffer, argc, mem, mainVars>>

\* the script path freed in place of the launcher path
AfterFullPathFreesScriptPath ==
  /\ pc = "after_full_path"
  /\ heap' = Free(heap, "long_script_path")
  /\ long_script_path' = buffer
  /\ long_script_path_size' = size
  /\ buffer' = NullBuffer
  /\ size' = 0
  /\ IF buffer.cap = 0
       THEN result' = NULL /\ pc' = "emcc_return"
       ELSE result' = result /\ pc' = "command_line"
  /\ UNCHANGED <<environment, module_file_name, failures, last_error, api, buffer_size, err, fetches,
                 tokVars, launcher_path, launcher_path_length, argument_array_size,
                 character_array_size, total_size, argv_buffer, argc, mem, mainVars>>

\* lines 288-290: free the launcher path; give up without a script path
AfterFullPath ==
  /\ pc = "after_full_path"
  /\ heap' = Free(heap, "launcher_path")
  /\ long_script_path' = buffer
  /\ long_script_path_size' = size
  /\ buffer' = NullBuffer
  /\ size' = 0
  /\ IF buffer.cap = 0
       THEN result' = NULL /\ pc' = "emcc_return"
       ELSE result' = result /\ pc' = "command_line"
  /\ UNCHANGED <<environment, module_file_name, failures, last_error, api, buffer_size, err, fetches,
                 tokVars, launcher_path, launcher_path_length, argument_array_size,
                 character_array_size, total_size, argv_buffer, argc, mem, mainVars>>

\* lines 292-298: GetCommandLineW, then the sizing pass with null outputs
GetCommandLine(lines) ==
  /\ pc = "command_line"
  /\ cmd' \in lines
  /\ argument_count' = 0
  /\ character_count' = 0
  /\ argv' = NULL
  /\ args' = NULL
  /\ pass' = "sizing"
  /\ pc' = "parse_start"
  /\ UNCHANGED <<p, c, in_quotes, scanned, outsideParse, mem>>

\* first_string without room for the null slot of the pointer area
FirstStringBeforeNullSlot(base, count) == base + 2 * PtrSize + (count - 1) * PtrSize

\* lines 314-316: first_string, behind the two prepended slots and the
\* argument_count slots of the pointer area
FirstString(base, count) == base + 2 * PtrSize + count * PtrSize

\* lines 299-318: size the single allocation from the sizing pass, allocate
\* it, and start the copy pass behind the two prepended slots
Allocate ==
  /\ pc = "allocate"
  /\ argument_array_size' = argument_count * PtrSize
  /\ character_array_size' = character_count * WcharSize
  /\ total_size' = 2 * PtrSize + argument_array_size' + character_array_size'
                     + (long_script_path_size + 1) * WcharSize
  /\ \/ /\ argv_buffer' = ArgvBase
        /\ heap' = [heap EXCEPT !["argv_buffer"] = "live"]
        /\ argv' = ArgvBase + 2 * PtrSize
        /\ args' = FirstString(ArgvBase, argument_count)
        /\ pass' = "copy"
        /\ result' = result
        /\ pc' = "parse_start"
        /\ UNCHANGED failures
     \/ /\ argv_buffer' = NULL
        /\ failures' = failures \cup {307}
        /\ heap' = Free(heap, "long_script_path")
        /\ result' = NULL
        /\ pc' = "emcc_return"
        /\ UNCHANGED <<argv, args, pass>>
  /\ UNCHANGED <<environment, module_file_name, last_error, callVars, cmd, p,
                 argument_count, character_count, c, in_quotes, scanned, launcher_path,
                 launcher_path_length, long_script_path, long_script_path_size,
                 argc, mem, mainVars>>

\* a pointer slot as the code reads it (-1: never written)
Load(m, a) == IF a \in DOMAIN m THEN m[a] ELSE -1

\* the slots filled the wrong way round: the script path before the flag
InjectSlotsScriptFirst(m, base, script) ==
  LET slot0 == Store(m, base, Load(m, base + 2 * PtrSize))
      slot1 == Store(slot0, base + PtrSize, script)
  IN  Store(slot1, base + 2 * PtrSize, LitDashE)

\* lines 329-332: argv[0] = argv[2]; argv[1] = L"-E"; argv[2] = the script path
InjectSlots(m, base, script) ==
  LET slot0 == Store(m, base, Load(m, base + 2 * PtrSize))
      slot1 == Store(slot0, base + PtrSize, LitDashE)
  IN  Store(slot1, base + 2 * PtrSize, script)

\* lines 320-333: copy the script path behind the characters, free it, and
\* fill the first three slots
Inject ==
  /\ pc = "inject"
  /\ LET long_script_path_in_argv ==
           argv_buffer + 2 * PtrSize + argument_array_size + character_array_size
         copied == StoreChars(mem, long_script_path_in_argv,
                              ReadCells(long_script_path.data, 0,
                                        long_script_path_size + 1))
     IN  mem' = InjectSlots(copied, argv_buffer, long_script_path_in_argv)
  /\ heap' = Free(heap, "long_script_path")
  /\ argc' = 2 + argument_count - 1
  /\ result' = argv_buffer
  /\ pc' = "emcc_return"
  /\ UNCHANGED <<environment, module_file_name, failures, last_error, callVars, tokVars,
                 launcher_path, launcher_path_length, long_script_path,
                 long_script_path_size, argument_array_size, character_array_size,
                 total_size, argv_buffer, mainVars>>

(* -------------------------- wmainCRTStartup ---------------------------- *)

\* the values Py_Main may return
ExitCodes == {-1, 0, 2}

\* ClearSysconfigdataName with the call left out
ClearSysconfigdataNameDropped(env) == env

\* line 339: SetEnvironmentVariableW(L"_PYTHON_SYSCONFIGDATA_NAME", L"")
ClearSysconfigdataName(env) ==
  [n \in DOMAIN env \cup {SYSCONFIGDATA_NAME} |->
     IF n = SYSCONFIGDATA_NAME THEN <<>> ELSE env[n]]

\* lines 339-344: clear the variable, then query the workaround variable
Start ==
  /\ pc = "wmainCRTStartup"
  /\ environment' = ClearSysconfigdataName(environment)
  /\ api' = WORKAROUND_NAME
  /\ pc' = "probe"
  /\ UNCHANGED <<module_file_name, failures, last_error, heap, buffer, size, buffer_size, err, fetches,
                 tokVars, emccVars, mem, mainVars>>

\* stdin closed without the test of the query's result
WorkaroundAlwaysCloses ==
  /\ pc = "workaround"
  /\ stdin_closes' = stdin_closes + 1
  /\ api' = PYTHON_DLL_NAME
  /\ pc' = "probe"
  /\ UNCHANGED <<osVars, buffer, size, buffer_size, err, fetches, tokVars, emccVars, mem,
                 loads, python_hmodule, Py_Main, free_library_calls, py_main_calls, ret,
                 exit_code>>

\* lines 345-350: close stdin when the workaround variable is set, then
\* query EMSDK_PYTHON_DLL
Workaround ==
  /\ pc = "workaround"
  /\ stdin_closes' = IF buffer.cap # 0 THEN stdin_closes + 1 ELSE stdin_closes
  /\ api' = PYTHON_DLL_NAME
  /\ pc' = "probe"
  /\ UNCHANGED <<osVars, buffer, size, buffer_size, err, fetches, tokVars, emccVars, mem,
                 loads, python_hmodule, Py_Main, free_library_calls, py_main_calls, ret,
                 exit_code>>

\* python3.dll tried after the named module failed to load
LoadLibraryWithFallback ==
  /\ pc = "load_library"
  /\ IF buffer.cap # 0
       THEN /\ \/ /\ loads' = Append(loads, StrOf(buffer.data, 0))
                  /\ python_hmodule' \in {NULL, 1}
               \/ /\ loads' = loads \o <<StrOf(buffer.data, 0), Python3Dll>>
                  /\ python_hmodule' \in {NULL, 1}
            /\ heap' = Free(heap, "emsdk_python_dll_path")
       ELSE /\ loads' = Append(loads, Python3Dll)
            /\ python_hmodule' \in {NULL, 1}
            /\ UNCHANGED heap
  /\ buffer' = NullBuffer
  /\ ret' = -1
  /\ pc' = "get_proc_address"
  /\ UNCHANGED <<environment, module_file_name, failures, last_error, api, size,
                 buffer_size, err, fetches, tokVars, emccVars, mem, stdin_closes,
                 Py_Main, free_library_calls, py_main_calls, exit_code>>

\* lines 351-358: load the named module, or python3.dll when none is named
LoadLibrary ==
  /\ pc = "load_library"
  /\ IF buffer.cap # 0
       THEN /\ loads' = Append(loads, StrOf(buffer.data, 0))
            /\ heap' = Free(heap, "emsdk_python_dll_path")
       ELSE /\ loads' = Append(loads, Python3Dll)
            /\ UNCHANGED heap
  /\ python_hmodule' \in {NULL, 1}
  /\ buffer' = NullBuffer
  /\ ret' = -1
  /\ pc' = "get_proc_address"
  /\ UNCHANGED <<environment, module_file_name, failures, last_error, api, size,
                 buffer_size, err, fetches, tokVars, emccVars, mem, stdin_closes,
                 Py_Main, free_library_calls, py_main_calls, exit_code>>

\* lines 359-364: look Py_Main up in the loaded module and build the argv
GetProcAddress ==
  /\ pc = "get_proc_address"
  /\ IF python_hmodule # NULL
       THEN /\ Py_Main' \in {NULL, 1}
            /\ pc' = IF Py_Main' # NULL THEN "emcc_get_argc_argv" ELSE "free_library"
       ELSE /\ Py_Main' = Py_Main
            /\ pc' = "exit"
  /\ UNCHANGED <<osVars, tokVars, callVars, emccVars, mem, stdin_closes, loads,
                 python_hmodule, free_library_calls, py_main_calls, ret, exit_code>>

\* Py_Main called without the test of argv
EmccReturnUnchecked ==
  /\ pc = "emcc_return"
  /\ pc' = "py_main"
  /\ UNCHANGED <<osVars, tokVars, callVars, emccVars, mem, mainVars>>

\* line 365: the argv emcc_get_argc_argv returned decides
EmccReturn ==
  /\ pc = "emcc_return"
  /\ pc' = IF result # NULL THEN "py_main" ELSE "free_library"
  /\ UNCHANGED <<osVars, tokVars, callVars, emccVars, mem, mainVars>>

\* lines 366-367: ret = Py_Main(argc, argv); free(argv)
PyMain ==
  /\ pc = "py_main"
  /\ ret' \in ExitCodes
  /\ py_main_calls' = Append(py_main_calls,
                             [argc |-> argc, argv |-> result, returned |-> ret'])
  /\ heap' = Free(heap, "argv_buffer")
  /\ pc' = "free_library"
  /\ UNCHANGED <<environment, module_file_name, failures, last_error, tokVars, callVars,
                 emccVars, mem, stdin_closes, loads, python_hmodule, Py_Main,
                 free_library_calls, exit_code>>

\* line 370: FreeLibrary(python_hmodule)
FreeLibrary ==
  /\ pc = "free_library"
  /\ free_library_calls' = free_library_calls + 1
  /\ pc' = "exit"
  /\ UNCHANGED <<osVars, tokVars, callVars, emccVars, mem, stdin_closes, loads,
                 python_hmodule, Py_Main, py_main_calls, ret, exit_code>>

\* ExitProcess with the code -1 that ret starts from
ExitProcessDefault ==
  /\ pc = "exit"
  /\ exit_code' = -1
  /\ pc' = "exited"
  /\ UNCHANGED <<osVars, tokVars, callVars, emccVars, mem, stdin_closes, loads,
                 python_hmodule, Py_Main, free_library_calls, py_main_calls, ret>>

\* line 373: ExitProcess(ret)
ExitProcess ==
  /\ pc = "exit"
  /\ exit_code' = ret
  /\ pc' = "exited"
  /\ UNCHANGED <<osVars, tokVars, callVars, emccVars, mem, stdin_closes, loads,
                 python_hmodule, Py_Main, free_library_calls, py_main_calls, ret>>

(* --------------------------- specifications ---------------------------- *)

\* the environments a run may start in: each of the three variables unset or
\* set, _PYTHON_SYSCONFIGDATA_NAME to the empty or to a nonempty value
Environments ==
  LET sysconfig == {<<>>, <<NUL>>, <<NUL, 120>>}
      workaround == {<<>>, <<NUL, 49>>}
      python_dll == {<<>>, <<NUL, 100>>}
      Names(s, w, d) == (IF s = <<>> THEN {} ELSE {SYSCONFIGDATA_NAME})
                        \cup (IF w = <<>> THEN {} ELSE {WORKAROUND_NAME})
                        \cup (IF d = <<>> THEN {} ELSE {PYTHON_DLL_NAME})
  IN  { [n \in Names(s, w, d) |->
           Tail(IF n = SYSCONFIGDATA_NAME THEN s
                ELSE IF n = WORKAROUND_NAME THEN w ELSE d)]
        : s \in sysconfig, w \in workaround, d \in python_dll }

NoHeap ==
  [b \in {"workaround_env", "emsdk_python_dll_path", "launcher_path",
          "long_script_path", "argv_buffer"} |-> "none"]

\* the state of the parameters and locals of functions not yet called
InitLocals ==
  /\ cmd = <<>> /\ p = 1 /\ argv = NULL /\ args = NULL
  /\ argument_count = 0 /\ character_count = 0 /\ c = NUL
  /\ in_quotes = FALSE /\ pass = "none" /\ scanned = <<>>
  /\ buffer = NullBuffer /\ size = 0 /\ buffer_size = 0 /\ err = 0
  /\ failures = {}
  /\ argument_array_size = 0 /\ character_array_size = 0 /\ total_size = 0
  /\ argv_buffer = NULL /\ mem = NoMem /\ argc = 0 /\ result = NULL
  /\ stdin_closes = 0 /\ py_main_calls = <<>> /\ exit_code = 0
  /\ free_library_calls = 0

\* the process as the loader hands it to wmainCRTStartup
Init ==
  /\ pc = "wmainCRTStartup"
  /\ environment \in Environments
  /\ module_file_name \in ModulePaths
  /\ last_error = ERROR_SUCCESS
  /\ heap = NoHeap
  /\ api = WORKAROUND_NAME
  /\ fetches = <<>>
  /\ launcher_path = NullBuffer /\ launcher_path_length = 0
  /\ long_script_path = NullBuffer /\ long_script_path_size = 0
  /\ loads = <<>> /\ python_hmodule = NULL /\ Py_Main = NULL /\ ret = 0
  /\ InitLocals

CommandLine == GetCommandLine(RunCommandLines)

Next ==
  \/ Start
  \/ windows_api_get_buffer_call
  \/ Workaround
  \/ LoadLibrary
  \/ GetProcAddress
  \/ GetModuleFileName
  \/ Substitute
  \/ AfterFullPath
  \/ CommandLine
  \/ parse_command_line
  \/ Allocate
  \/ Inject
  \/ EmccReturn
  \/ PyMain
  \/ FreeLibrary
  \/ ExitProcess

Spec == Init /\ [][Next]_vars

\* the tokenizer by itself: emcc_get_argc_argv from line 292 on, in a run
\* without overrides that loaded python3.dll, found Py_Main and resolved the
\* script path of the longest module path
InitTok ==
  /\ pc = "command_line"
  /\ environment = ClearSysconfigdataName(<<>>)
  /\ module_file_name = ModulePath(MaxPathLen)
  /\ last_error = ERROR_SUCCESS
  /\ heap = [NoHeap EXCEPT !["launcher_path"] = "freed",
                           !["long_script_path"] = "live"]
  /\ api = FULL_PATH_NAME
  /\ launcher_path_length = Len(module_file_name)
  /\ launcher_path =
       [cap |-> Len(module_file_name) + 1,
        data |-> ChangeExtension(StoreCells(NoMem, 0, Append(module_file_name, NUL)),
                                 Len(module_file_name))]
  /\ \E full \in FullPathNames(StrOf(launcher_path.data, 0)) :
       /\ long_script_path = [cap |-> Len(full) + 1,
                              data |-> StoreCells(NoMem, 0, Append(full, NUL))]
       /\ long_script_path_size = Len(full)
       /\ LET probed == [ret |-> Len(full) + 1, err |-> ERROR_SUCCESS, str |-> <<>>]
               fetched == [ret |-> Len(full), err |-> ERROR_SUCCESS, str |-> <<>>]
           IN  fetches = <<Fetched(0, 0, probed),
                           Fetched(Len(full) + 1, Len(full) + 1, fetched)>>
  /\ loads = <<Python3Dll>> /\ python_hmodule = 1 /\ Py_Main = 1 /\ ret = -1
  /\ InitLocals

TokenizerCommandLine == GetCommandLine(TokenizerCommandLines)

NextTok ==
  \/ TokenizerCommandLine
  \/ parse_command_line
  \/ Allocate
  \/ Inject

SpecTok == InitTok /\ [][NextTok]_vars


(* ------------------------- reading the results ------------------------- *)

\* the strings the pointer slots base[0..n-1] point to
Strings(base, n) == [i \in 1..n |-> StrAt(mem, Load(mem, base + (i - 1) * PtrSize))]

\* the argument vector the copy pass produced: line 312's first_argument on
Tokens == Strings(argv_buffer + 2 * PtrSize, argument_count - 1)

\* the vector emcc_get_argc_argv returned
FinalArgv == Strings(result, argc)

\* the script path: the string get_full_path_name returned
ScriptPath == StrOf(long_script_path.data, 0)

(* ------------------------------ claims --------------------------------- *)

\* C1: for a command line that tokenizes to n >= 1 arguments a0 .. a(n-1)
\* and the script path S, emcc_get_argc_argv returns argc = n + 2 and the
\* vector a0, "-E", S, a1, .., a(n-1), with a null pointer in slot argc.
C1_InjectedVector ==
  [][pc = "inject" =>
       LET n == Len(Tokens)
       IN  /\ n >= 1
           /\ argc' = n + 2
           /\ FinalArgv' = <<Tokens[1], <<45, 69>>, ScriptPath>> \o Tail(Tokens)
           /\ Load(mem', result' + argc' * PtrSize) = NULL]_vars

\* C1's case: a vector of five slots whose last two arguments differ
C1_Witness ==
  /\ pc = "emcc_return" /\ result # NULL
  /\ argc = 5
  /\ FinalArgv[4] # FinalArgv[5]
  /\ FinalArgv[3] = ScriptPath

\* the backslashes of the command line from index i on, counted for the claims
RECURSIVE SlashRun(_)
SlashRun(i) ==
  IF i \in 1..Len(cmd) /\ cmd[i] = BSLASH THEN 1 + SlashRun(i + 1) ELSE 0

\* what the rule of C2 gives for the iteration e of the scan loop, which
\* starts on a run of N backslashes; exempt says whether a quote doubled
\* inside quotes is left to C3
BackslashRule(e, exempt) ==
  LET N == SlashRun(e.at)
      q == e.at + N
  IN  IF At(q) = QUOTE
        THEN IF N % 2 = 0
               THEN IF exempt /\ e.inq /\ At(q + 1) = QUOTE
                      THEN /\ e.out = Append(Repeat(BSLASH, N \div 2), QUOTE)
                           /\ e.inq_after = e.inq
                           /\ e.next = q + 2
                      ELSE /\ e.out = Repeat(BSLASH, N \div 2)
                           /\ e.inq_after = ~e.inq
                           /\ e.next = q + 1
               ELSE /\ e.out = Append(Repeat(BSLASH, (N - 1) \div 2), QUOTE)
                    /\ e.inq_after = e.inq
                    /\ e.next = q + 1
        ELSE /\ Len(e.out) \in {N, N + 1}
             /\ SubSeq(e.out, 1, N) = Repeat(BSLASH, N)
             /\ Len(e.out) = N + 1 => e.out[N + 1] = At(q)
             /\ e.inq_after = e.inq

\* C2 as stated: N backslashes before a quote give N/2 backslashes and a
\* toggle of quote mode, the quote not emitted, when N is even; (N-1)/2
\* backslashes and a literal quote, the mode unchanged, when N is odd; N
\* backslashes not before a quote are all emitted.
C2_AsStated == \A k \in DOMAIN scanned : BackslashRule(scanned[k], FALSE)

\* C2 as amended: the same, except that an even run before a quote that is
\* seen in quoted mode and followed at once by a second quote gives N/2
\* backslashes and one literal quote, consumes both quotes and leaves the
\* mode unchanged.
C2_BackslashRule == \A k \in DOMAIN scanned : BackslashRule(scanned[k], TRUE)

\* C2's case: five backslashes before a quote were copied as two
\* backslashes and a quote, and no backslashes before a quote toggled the mode
C2_Witness ==
  /\ pass = "copy" /\ pc = "next_argument"
  /\ Len(scanned) = 3
  /\ SlashRun(scanned[1].at) = 0 /\ At(scanned[1].at) = QUOTE
  /\ scanned[1].out = <<>> /\ scanned[1].inq_after
  /\ SlashRun(scanned[2].at) = 5 /\ At(scanned[2].at + 5) = QUOTE
  /\ scanned[2].out = <<BSLASH, BSLASH, QUOTE>>
  /\ StrAt(mem, args - 4 * WcharSize) = <<BSLASH, BSLASH, QUOTE>>

\* what C3 says of the iteration scanned[k] when it starts, after an even
\* run of N backslashes, on two consecutive quotes; third says whether the
\* case of a third quote behind them is excepted
DoubledQuoteRule(k, third) ==
  LET e == scanned[k]
      N == SlashRun(e.at)
      q == e.at + N
  IN  (N % 2 = 0 /\ At(q) = QUOTE /\ At(q + 1) = QUOTE) =>
        IF e.inq
          THEN /\ e.out = Append(Repeat(BSLASH, N \div 2), QUOTE)
               /\ e.inq_after
               /\ e.next = q + 2
          ELSE (k + 1 \in DOMAIN scanned /\ ~(third /\ At(q + 2) = QUOTE)) =>
                 /\ e.out \o scanned[k + 1].out = Repeat(BSLASH, N \div 2)
                 /\ ~scanned[k + 1].inq_after
                 /\ scanned[k + 1].next = q + 2

\* C3 as stated: two consecutive quotes seen in quoted mode emit one literal
\* quote and leave the mode quoted; seen outside quoted mode they emit
\* nothing and leave the mode unquoted.
C3_AsStated == \A k \in DOMAIN scanned : DoubledQuoteRule(k, FALSE)

\* C3 as amended: the second half holds when no third quote follows the two
\* at once (with a third, the second and third are a doubled quote in
\* quoted mode).
C3_DoubledQuote == \A k \in DOMAIN scanned : DoubledQuoteRule(k, TRUE)

\* C3's case: in one argument, two quotes outside quoted mode emitted
\* nothing, and later two quotes in quoted mode were copied as one quote
C3_Witness ==
  /\ pass = "copy"
  /\ \E j, k \in DOMAIN scanned :
       /\ j + 1 < k
       /\ ~scanned[j].inq /\ At(scanned[j].at) = QUOTE /\ At(scanned[j].at + 1) = QUOTE
       /\ scanned[j].out \o scanned[j + 1].out = <<>> /\ ~scanned[j + 1].inq_after
       /\ scanned[k].inq /\ At(scanned[k].at) = QUOTE /\ At(scanned[k].at + 1) = QUOTE
       /\ scanned[k].out = <<QUOTE>> /\ scanned[k].inq_after

\* the first index from i on where the command line holds a quote, or its end
RECURSIVE NextQuote(_)
NextQuote(i) == IF i > Len(cmd) \/ cmd[i] = QUOTE THEN i ELSE NextQuote(i + 1)

\* the first index from i on of a blank outside quotes, or the end, when the
\* scan is in quote mode inq at i
RECURSIVE UnquotedBlank(_, _)
UnquotedBlank(i, inq) ==
  IF i > Len(cmd) \/ (~inq /\ IsBlank(cmd[i])) THEN i
  ELSE UnquotedBlank(i + 1, IF cmd[i] = QUOTE THEN ~inq ELSE inq)

\* s without its quotes
RECURSIVE Unquoted(_)
Unquoted(s) ==
  IF s = <<>> THEN <<>>
  ELSE IF Head(s) = QUOTE THEN Unquoted(Tail(s))
  ELSE <<Head(s)>> \o Unquoted(Tail(s))

\* C4: a command line that starts with a quote has as program name exactly
\* the text between that quote and the next quote (or the end); one that
\* does not has a program name that ends at the first blank outside quotes,
\* its quotes not copied.
C4_ProgramName ==
  pc = "inject" =>
    Tokens[1] = IF cmd # <<>> /\ cmd[1] = QUOTE
                  THEN SubSeq(cmd, 2, NextQuote(2) - 1)
                  ELSE Unquoted(SubSeq(cmd, 1, UnquotedBlank(1, FALSE) - 1))

\* C5: an argument after the program name starts outside quoted mode on a
\* character that is no blank, and ends only at the end of the line or at a
\* blank seen outside quoted mode: a blank in quoted mode is copied into the
\* argument, an unmatched quote extends it to the end of the line, and no
\* argument is made of blanks alone.
C5_Delimiters ==
  /\ (pc = "scan_argument" /\ scanned = <<>>) =>
       ~in_quotes /\ At(p) # NUL /\ ~IsBlank(At(p))
  /\ pc = "argument_end" =>
       /\ At(p) = NUL \/ (~in_quotes /\ IsBlank(At(p)))
       /\ p > scanned[1].at
  /\ \A k \in DOMAIN scanned :
       LET e == scanned[k]
       IN  (k < Len(scanned) \/ pc = "scan_argument") =>
             /\ e.next > e.at
             /\ IsBlank(At(e.next - 1)) =>
                  e.inq_after /\ e.out # <<>> /\ e.out[Len(e.out)] = At(e.next - 1)

\* C5's case: an argument with an unmatched quote ran to the end of the
\* line, across a blank that was copied into it
C5_Witness ==
  /\ pc = "argument_end" /\ pass = "copy"
  /\ in_quotes /\ At(p) = NUL
  /\ \E k \in DOMAIN scanned : scanned[k].out = <<SPACE>>
  /\ p > SkipBlanks(scanned[1].at + 2)

\* C6: every command line yields at least one argument, and the empty one
\* yields exactly one, the empty program name, and then the null slot.
C6_AtLeastProgramName ==
  /\ pc \in {"allocate", "inject"} => argument_count >= 2
  /\ (pc = "allocate" /\ cmd = <<>>) => argument_count = 2 /\ character_count = 1
  /\ (pc = "inject" /\ cmd = <<>>) =>
       /\ argument_count = 2
       /\ Tokens = << <<>> >>
       /\ Load(mem, argv_buffer + 3 * PtrSize) = NULL

\* C6's case: the copy pass over the empty command line has returned
C6_Witness ==
  /\ pc = "inject" /\ cmd = <<>>
  /\ Tokens = << <<>> >>

\* C7: the copy pass reports the argument count and the character count
\* the sizing pass reported (which sized the two arrays).
C7_PassesAgree ==
  pc = "inject" =>
    /\ argument_count * PtrSize = argument_array_size
    /\ character_count * WcharSize = character_array_size

\* C7's case: both passes ran over a line of a program name and two arguments
C7_Witness ==
  /\ pc = "inject"
  /\ argument_count = 4
  /\ character_count > 4
  /\ character_count * WcharSize = character_array_size

\* C8: for a module path of length L >= 3 the extension substitution keeps
\* the first L-3 characters, puts "py" and a terminator in place of the last
\* three, which leaves a string of length L-1, and writes only inside the
\* L+1 cells of the path buffer.
C8_Extension ==
  launcher_path.cap # 0 =>
    LET L == launcher_path_length
    IN  /\ L = Len(module_file_name) /\ L >= 3
        /\ launcher_path.cap = L + 1
        /\ StrOf(launcher_path.data, 0) =
             SubSeq(module_file_name, 1, L - 3) \o <<112, 121>>
        /\ Len(StrOf(launcher_path.data, 0)) = L - 1
        /\ DOMAIN launcher_path.data \subseteq 0..L

\* C8's case: the shortest path, of three characters, was rewritten from
\* its first cell on
C8_Witness ==
  /\ pc = "probe" /\ api = FULL_PATH_NAME
  /\ launcher_path.cap = 4 /\ launcher_path_length = 3
  /\ StrOf(launcher_path.data, 0) = <<112, 121>>

\* C9: Py_Main is invoked at most once in a run, and when it was invoked the
\* process exits with the value it returned.
C9_ExitCode ==
  /\ Len(py_main_calls) <= 1
  /\ (pc = "exited" /\ py_main_calls # <<>>) => exit_code = py_main_calls[1].returned

\* C9's case: Py_Main returned 2 and the process exited with 2
C9_Witness ==
  /\ pc = "exited"
  /\ Len(py_main_calls) = 1 /\ py_main_calls[1].returned = 2
  /\ exit_code = 2

\* C10: when the interpreter module is loaded and when Py_Main is invoked,
\* _PYTHON_SYSCONFIGDATA_NAME is set to the empty string.
C10_SysconfigCleared ==
  (pc \in {"load_library", "py_main"} \/ loads # <<>> \/ py_main_calls # <<>>) =>
    /\ SYSCONFIGDATA_NAME \in DOMAIN environment
    /\ environment[SYSCONFIGDATA_NAME] = <<>>

\* C10's case: Py_Main is about to be invoked, the module loaded, the
\* variable empty
C10_Witness ==
  /\ pc = "py_main" /\ loads # <<>> /\ python_hmodule # NULL
  /\ environment[SYSCONFIGDATA_NAME] = <<>>

(* ------------------- windows_api_get_buffer_call ----------------------- *)

\* the places windows_api_get_buffer_call returns to
ReturnSites == {ReturnSite(a) : a \in {WORKAROUND_NAME, PYTHON_DLL_NAME,
                                        MODULE_FILE_NAME, FULL_PATH_NAME}}

\* the current call's probe reported a positive length
ProbedLength == fetches # <<>> /\ fetches[1].ret > 0

\* C11: when the zero-capacity probe reports a positive length n, one
\* further fetch is made, with a buffer of capacity n, and none after it;
\* when the call has returned, a fetch that returned n - 1 has given a
\* buffer of n characters and the size n - 1, and any other fetch has given
\* null and the size 0, the buffer freed.
C11_KnownSizeFetch ==
  ProbedLength =>
    LET n == fetches[1].ret
    IN  /\ Len(fetches) <= 2
        /\ Len(fetches) = 2 => fetches[2].cap = n /\ fetches[2].buf = n
        /\ pc \in ReturnSites =>
             /\ Len(fetches) = 2
             /\ IF fetches[2].ret = n - 1
                  THEN buffer.cap = n /\ size = n - 1
                  ELSE /\ buffer = NullBuffer /\ size = 0
                       /\ heap[BlockOf(api)] = "freed"

\* the current call's probe returned 0 with the insufficient-buffer signal
ProbedInsufficient ==
  /\ fetches # <<>>
  /\ fetches[1].ret = 0
  /\ fetches[1].err = ERROR_INSUFFICIENT_BUFFER

\* the capacity of the k-th fetch of the grow loop: 32, 96, 224, ...
GrowCapacity(k) == 32 * (2^k - 1)

\* a fetch of the current call signalled an error other than
\* insufficient-buffer
OtherErrorSignalled ==
  \E k \in DOMAIN fetches : fetches[k].err \in OtherErrors

\* the grow loop of the module-path query, whose provider signals
\* insufficient-buffer at each capacity up to the length L of the path and
\* success above it: the k-th fetch has the capacity GrowCapacity(k), none
\* follows a fetch that signalled anything but insufficient-buffer, and the
\* call returns the L characters and a terminator in a buffer of L + 1, with
\* the size L, or null with the size 0: only after another error when strict,
\* else also after a reallocation that failed (line 81 or 91)
GrowLoop(strict) ==
  (api = MODULE_FILE_NAME /\ ProbedInsufficient) =>
    LET L == Len(module_file_name)
    IN  /\ \A k \in 2..Len(fetches) :
             /\ fetches[k].cap = GrowCapacity(k - 1)
             /\ fetches[k].buf = fetches[k].cap
             /\ fetches[k - 1].err = ERROR_INSUFFICIENT_BUFFER
             /\ k > 2 => fetches[k - 1].cap <= L
        /\ pc \in ReturnSites =>
             IF OtherErrorSignalled \/ (~strict /\ failures \cap {81, 91} # {})
               THEN buffer = NullBuffer /\ size = 0
               ELSE /\ fetches[Len(fetches)].cap > L
                    /\ fetches[Len(fetches)].err = ERROR_SUCCESS
                    /\ buffer.cap = L + 1
                    /\ DOMAIN buffer.data = 0..L
                    /\ StrOf(buffer.data, 0) = module_file_name
                    /\ size = L

C13_AllocationFatal ==
  /\ \A k \in DOMAIN fetches : fetches[k].cap > 0 => fetches[k].buf # 0
  /\ failures # {} =>
       /\ pc \in {"fault", "exited"}
       /\ py_main_calls = <<>>
       /\ (loads = <<Python3Dll>>) => PYTHON_DLL_NAME \notin DOMAIN environment

(* --------------------------- failed launches --------------------------- *)

\* LoadLibraryW returned no module
ModuleNotLoaded == loads # <<>> /\ python_hmodule = NULL

\* the module has no Py_Main
SymbolMissing == python_hmodule # NULL /\ Py_Main = NULL

\* emcc_get_argc_argv returned null at line 282: no module path
ModulePathFailed == Py_Main # NULL /\ result = NULL /\ launcher_path = NullBuffer

\* emcc_get_argc_argv returned null at line 290: no full path
FullPathFailed ==
  /\ Py_Main # NULL /\ result = NULL
  /\ launcher_path # NullBuffer /\ long_script_path = NullBuffer

\* C14: a run in which the module was not loaded, or Py_Main was not found,
\* or emcc_get_argc_argv returned null for want of the module path or of the
\* full path, has not invoked Py_Main and exits with -1, and has released the
\* module it loaded, once, before it exits.
C14_FailedLaunch ==
  (pc = "exited" /\ (ModuleNotLoaded \/ SymbolMissing \/ ModulePathFailed
                       \/ FullPathFailed)) =>
    /\ py_main_calls = <<>>
    /\ exit_code = -1
    /\ free_library_calls = IF python_hmodule # NULL THEN 1 ELSE 0

\* a run that found Py_Main, changed the extension and then failed to get the
\* full path
C14_Witness ==
  /\ pc = "exited" /\ FullPathFailed
  /\ free_library_calls = 1 /\ exit_code = -1

(* ------------------------- the single allocation ----------------------- *)

\* the cells of n elements of the given width from address a on
Cells(a, n, width) == {a + width * k : k \in 0..(n - 1)}

\* the bytes of a set of cells of the given width
Bytes(cells, width) == UNION {a..(a + width - 1) : a \in cells}

\* the four areas of the allocation, as lines 299-306 and 312-322 lay them
\* out from the counts of the sizing pass
PrependArea == Cells(argv_buffer, 2, PtrSize)
PointerArea == Cells(argv_buffer + 2 * PtrSize, argument_array_size \div PtrSize, PtrSize)
CharacterArea ==
  Cells(argv_buffer + 2 * PtrSize + argument_array_size,
        character_array_size \div WcharSize, WcharSize)
ScriptPathArea ==
  Cells(argv_buffer + 2 * PtrSize + argument_array_size + character_array_size,
        long_script_path_size + 1, WcharSize)

\* C15: during the copy pass the cells written are the first argument_count
\* slots of the pointer area and the first character_count cells of the
\* character area; when it ends they are exactly the two areas, the last
\* slot null; every cell ever written lies in one of the four areas, whose
\* bytes lie inside the allocation of total_size bytes and do not overlap.
C15_WritesInside ==
  pass = "copy" =>
    LET copying == pc \notin {"emcc_return"}
        slots == Bytes(PrependArea \cup PointerArea, PtrSize)
        chars == Bytes(CharacterArea, WcharSize)
        script == Bytes(ScriptPathArea, WcharSize)
    IN  /\ copying /\ pc # "parse_start" =>
             DOMAIN mem = Cells(argv_buffer + 2 * PtrSize, argument_count, PtrSize)
                            \cup Cells(argv_buffer + 2 * PtrSize + argument_array_size,
                                       character_count, WcharSize)
        /\ copying => DOMAIN mem \subseteq PointerArea \cup CharacterArea
        /\ pc = "inject" =>
             /\ DOMAIN mem = PointerArea \cup CharacterArea
             /\ mem[argv_buffer + 2 * PtrSize + argument_array_size - PtrSize] = NULL
        /\ ~copying =>
             DOMAIN mem = PrependArea \cup PointerArea \cup CharacterArea
                            \cup ScriptPathArea
        /\ slots \cup chars \cup script
             = argv_buffer..(argv_buffer + total_size - 1)
        /\ slots \cap chars = {} /\ slots \cap script = {} /\ chars \cap script = {}
        /\ Bytes(PrependArea, PtrSize) \cap Bytes(PointerArea, PtrSize) = {}

\* the copy pass has ended on a line of three arguments, one of them quoted
\* with a blank in it
C15_Witness ==
  /\ pc = "inject"
  /\ argument_count = 4
  /\ \E k \in DOMAIN cmd : k > 1 /\ cmd[k - 1] = QUOTE /\ cmd[k] = SPACE
  /\ DOMAIN mem = PointerArea \cup CharacterArea

(* --------------------------- loading the module ------------------------ *)

\* C16: the only step that attempts a load is the one that follows the
\* EMSDK_PYTHON_DLL query, it attempts one module and none was attempted
\* before it: the value the query returned when it returned one, python3.dll
\* when it returned null; a run that exits has attempted exactly one.
C16_OneLoad ==
  [][ /\ loads' # loads =>
           /\ pc = "load_library" /\ api = PYTHON_DLL_NAME
           /\ loads = <<>>
           /\ loads' = << IF buffer.cap # 0 THEN StrOf(buffer.data, 0)
                          ELSE Python3Dll >>
      /\ pc' = "exited" => Len(loads') = 1 ]_vars

\* the module EMSDK_PYTHON_DLL names failed to load, and the run exited
\* without trying another
C16_Witness ==
  /\ pc = "exited"
  /\ PYTHON_DLL_NAME \in DOMAIN environment
  /\ loads = <<environment[PYTHON_DLL_NAME]>>
  /\ python_hmodule = NULL

(* ------------------------------- stdin --------------------------------- *)

\* C17: the step that follows the EM_WORKAROUND_PYTHON_BUG_34780 query
\* closes the standard input when the query returned a value and leaves it
\* open when it returned null; no other step closes it, so it is closed at
\* most once, and when it is closed no module has been loaded and Py_Main
\* has not been invoked.
C17_StdinClosed ==
  [][ /\ (pc = "workaround" /\ pc' # pc) =>
           stdin_closes' = IF buffer.cap # 0 THEN 1 ELSE 0
      /\ stdin_closes' # stdin_closes =>
           /\ pc = "workaround" /\ api = WORKAROUND_NAME
           /\ stdin_closes = 0
           /\ loads' = <<>> /\ py_main_calls' = <<>> ]_vars

\* Py_Main has run with the standard input closed
C17_Witness ==
  /\ pc = "exited"
  /\ stdin_closes = 1
  /\ WORKAROUND_NAME \in DOMAIN environment
  /\ py_main_calls # <<>>

(* ------------------------ capacities and lengths ----------------------- *)

\* passes of the grow loop followed, enough for the capacity to reach the
\* end of the DWORD range
MaxGrowSteps == 12

\* buffer_size after k passes of the grow loop, from the 0 of the probe
RECURSIVE CapacityAfter(_)
CapacityAfter(k) == IF k = 0 THEN 0 ELSE GrownSize(CapacityAfter(k - 1))

\* C18: in the grow loop the capacity of a fetch is never below that of the
\* fetch before it, in the calls made and for as many passes as the loop may
\* make before and after the capacity reaches the end of the DWORD range;
\* a call that returns a buffer reports a length below the capacity fetched
\* into, with the terminator at that index of the buffer, and line 89
\* writes its terminator inside the buffer.
C18_CapacityAndLength ==
  /\ \A k \in 1..MaxGrowSteps : CapacityAfter(k) >= CapacityAfter(k - 1)
  /\ (fetches # <<>> /\ fetches[1].ret = 0) =>
       \A k \in 2..Len(fetches) :
         /\ fetches[k].cap = CapacityAfter(k - 1)
         /\ fetches[k].cap >= fetches[k - 1].cap
  /\ (pc = "finish" /\ buffer.cap # 0 /\ err = ERROR_SUCCESS) =>
       buffer.cap = buffer_size /\ size < buffer.cap
  /\ (pc \in ReturnSites /\ buffer # NullBuffer) =>
       LET last == fetches[Len(fetches)]
       IN  /\ size = last.ret
           /\ size < last.cap /\ last.buf = last.cap
           /\ size < buffer.cap
           /\ size \in DOMAIN buffer.data /\ buffer.data[size] = NUL

\* the module path of 40 characters returned after a second, larger fetch
C18_Witness ==
  /\ pc = "substitute"
  /\ Len(fetches) = 3
  /\ fetches[2].cap < fetches[3].cap
  /\ size = 40 /\ buffer.data[size] = NUL

(* ------------------------------ the heap ------------------------------- *)

\* the places inside parse_command_line
ParsePlaces ==
  {"parse_start", "program_name", "program_name_end", "next_argument",
   "scan_argument", "argument_end", "parse_end"}

\* the heap blocks the step taken next reads or writes
Accessed ==
  (IF pc \in {"probe", "fetch", "grow"} /\ api = FULL_PATH_NAME
     THEN {"launcher_path"} ELSE {})
  \cup (IF pc \in {"grow", "finish", "return"} /\ buffer.cap # 0
          THEN {BlockOf(api)} ELSE {})
  \cup (IF pc \in ReturnSites /\ buffer.cap # 0 THEN {BlockOf(api)} ELSE {})
  \cup (IF pc \in ParsePlaces /\ pass = "copy" THEN {"argv_buffer"} ELSE {})
  \cup (IF pc = "inject" THEN {"argv_buffer", "long_script_path"} ELSE {})
  \cup (IF pc = "py_main" THEN {"argv_buffer"} ELSE {})

\* C19: no block is freed twice, and every block the next step reads or
\* writes is live; the argument vector is freed only once Py_Main has
\* returned, and a run that called Py_Main exits with it freed once.
C19_HeapDiscipline ==
  /\ \A b \in DOMAIN heap : heap[b] \in {"none", "live", "freed"}
  /\ \A b \in Accessed : heap[b] = "live"
  /\ heap["argv_buffer"] = "freed" => py_main_calls # <<>>
  /\ (pc \in {"free_library", "exit", "exited"} /\ py_main_calls # <<>>) =>
       heap["argv_buffer"] = "freed"

\* a run that freed the launcher path, the script path, the module name and
\* the argument vector, each once
C19_Witness ==
  /\ pc = "exited"
  /\ heap["launcher_path"] = "freed"
  /\ heap["long_script_path"] = "freed"
  /\ heap["emsdk_python_dll_path"] = "freed"
  /\ heap["argv_buffer"] = "freed"
  /\ Len(py_main_calls) = 1

=============================================================================
